---- MODULE Spec2Model ----
(***************************************************************************)
(* basic-service: the controller registry and request dispatcher of        *)
(* ExpressServer (src/src/basic-service/servers/express-server.ts).         *)
(*                                                                         *)
(* State: routerControllerMap (name -> {router, controller}), the express  *)
(* Routers it created (each an ordered list of route bindings), the        *)
(* application's stack of mounted routers, and the requests in flight.     *)
(* Registry calls are synchronous JavaScript, so each is one atomic step;  *)
(* a request is dispatched, suspended at the await, and continued.         *)
(* The lifecycle (getInstance, reset, listen, close) is studied over the    *)
(* instances the process constructs, in a specification of its own.        *)
(***************************************************************************)
EXTENDS Integers, Sequences, FiniteSets, TLC

\* ---------------------------------------------------------------- bounds
\* The objects a run may create in all: handler records, route bindings, and
\* a request and a response object for each request received.  MaxSetup
\* bounds the runs of the registry alone (SpecR), MaxWork those of the
\* registry with requests (Spec).
MaxSetup == 5
MaxWork == 6

\* The objects a run of the lifecycle (SpecL) may create in all: instances,
\* http servers, registry entries with their records and bindings, and
\* documentation mounts.
MaxLife == 5

\* ---------------------------------------------------------------- inputs
\* Controller names (the keys of routerControllerMap) and the opaque
\* controller instances.  Names are ordinary strings, none of them a
\* property every JavaScript object inherits.
Names == {"Stub", "test"}
Instances == {"i1", "i2"}

\* The methods a controller instance has; any other name is undefined on it.
Methods(instance) == {"m1", "m2"}

\* ControllerHandler objects the callers hold.  A handler object is known by
\* its identity (1..4); Decl gives its fields.  Objects 1 and 2 are distinct
\* objects with equal fields, 3 names a method no instance has, and 4 has a
\* path the engine's route compiler rejects.
HandlerIds == {1, 2, 3, 4}
Decl(h) ==
    CASE h = 1 -> [method |-> "get", path |-> "/a", handler |-> "m1"]
      [] h = 2 -> [method |-> "get", path |-> "/a", handler |-> "m1"]
      [] h = 3 -> [method |-> "put", path |-> "/b", handler |-> "nosuch"]
      [] OTHER -> [method |-> "post", path |-> "/(", handler |-> "m2"]

\* CONTROLLER_METHOD: the verbs of the service.
CONTROLLER_METHOD == {"get", "post", "put", "delete"}

\* The arrays of handler objects the callers pass: empty, one object, the
\* same object twice, two distinct objects with equal fields, two objects
\* with different fields, and a rejected path first or part-way.
HandlerArrays ==
    {<<>>, <<1>>, <<2>>, <<3>>, <<1, 1>>, <<1, 2>>, <<1, 3>>, <<4, 1>>, <<1, 4>>}

\* The Controller objects passed to addController: handler is optional
\* (hasHandler = FALSE is `handler: undefined`).
Controllers ==
    [name : Names, instance : Instances, hasHandler : {FALSE}, handler : {<<>>}]
    \cup
    [name : Names, instance : Instances, hasHandler : {TRUE}, handler : HandlerArrays]

\* The requests the clients send.
RequestLines == {<<"get", "/a">>, <<"put", "/b">>, <<"delete", "/c">>}

VARIABLES
    routerControllerMap,  \* name -> [router, controller]
    routers,              \* router id -> sequence of route bindings
    mounted,              \* app.use(router): router ids in mount order
    lastCall,             \* the last registry call and how it ended
    traced,               \* lastCall is kept (the registry is studied alone)
    reqs,                 \* the requests received, in arrival order
    alive,                \* the process is running
    app,                  \* Server.app: the instance getInstance hands out, 0 for undefined
    heap,                 \* the ExpressServer instances constructed, by id
    sockets,              \* the http servers app.listen created
    current,              \* the references handed out since Server.app was last cleared
    lastOp                \* the last lifecycle call and how it ended

\* The state of the one ExpressServer instance whose registry and requests
\* are studied, and the state of the process around the instances.
single == <<routerControllerMap, routers, mounted, lastCall, traced, reqs, alive>>
lifecycle == <<app, heap, sockets, current, lastOp>>

vars == <<single, lifecycle>>

\* ------------------------------------------------------------- registry
\* this.routerControllerMap[name] is truthy
HasController(map, name) == name \in DOMAIN map

\* The registry-and-engine state a registry call works on.
State(map, rs, ms, error) ==
    [map |-> map, routers |-> rs, mounted |-> ms, error |-> error]

\* indexOf that finds nothing: every handler object is pushed.
IndexOfNothing(list, h) == 0

\* Array.prototype.indexOf: strict equality, so a handler object is found
\* only by identity.  0 stands for -1 (sequences are 1-based).
IndexOf(list, h) ==
    IF \E i \in 1..Len(list) : list[i] = h
    THEN CHOOSE i \in 1..Len(list) :
            list[i] = h /\ \A j \in 1..(i - 1) : list[j] # h
    ELSE 0

\* router[method](path, shim) throws when the route cannot be built: the
\* engine cannot compile the path, or method is no verb of the router.
EngineAccepts(method, path) == method \in CONTROLLER_METHOD /\ path # "/("

\* The route binding router[method](path, shim) installs: the shim closes
\* over the controller instance and the handler name.
Binding(instance, h) ==
    [method |-> Decl(h).method, path |-> Decl(h).path,
     handler |-> Decl(h).handler, instance |-> instance]

\* One iteration that starts the handler list anew with the handler object
\* instead of pushing onto it.
AttachOneReplaces(st, controllerid, instance, h) ==
    LET entry == st.map[controllerid]
        rid == entry.router
    IN  IF ~EngineAccepts(Decl(h).method, Decl(h).path)
        THEN [st EXCEPT !.error = "engine error"]
        ELSE [st EXCEPT
                !.routers[rid] = Append(@, Binding(instance, h)),
                !.map[controllerid].controller.hasHandler = TRUE,
                !.map[controllerid].controller.handler = <<h>>]

\* One iteration that binds the route only for a handler object it records.
AttachOneBindsFresh(st, controllerid, instance, h) ==
    LET entry == st.map[controllerid]
        rid == entry.router
        list == IF entry.controller.hasHandler
                THEN entry.controller.handler ELSE <<>>
        fresh == IndexOf(list, h) = 0
    IN  IF ~EngineAccepts(Decl(h).method, Decl(h).path)
        THEN [st EXCEPT !.error = "engine error"]
        ELSE [st EXCEPT
                !.routers[rid] = IF fresh THEN Append(@, Binding(instance, h)) ELSE @,
                !.map[controllerid].controller.hasHandler = TRUE,
                !.map[controllerid].controller.handler =
                    IF fresh THEN Append(list, h) ELSE list]

\* One iteration that pushes the handler object without asking indexOf.
AttachOnePushesAlways(st, controllerid, instance, h) ==
    LET entry == st.map[controllerid]
        rid == entry.router
        list == IF entry.controller.hasHandler
                THEN entry.controller.handler ELSE <<>>
    IN  IF ~EngineAccepts(Decl(h).method, Decl(h).path)
        THEN [st EXCEPT !.error = "engine error"]
        ELSE [st EXCEPT
                !.routers[rid] = Append(@, Binding(instance, h)),
                !.map[controllerid].controller.hasHandler = TRUE,
                !.map[controllerid].controller.handler = Append(list, h)]

\* One iteration of the forEach of addControllerHandlers, on a state without
\* error: bind the route, create the handler list if there is none, push
\* the handler object unless indexOf finds it.
AttachOne(st, controllerid, instance, h) ==
    LET entry == st.map[controllerid]
        rid == entry.router
        list == IF entry.controller.hasHandler
                THEN entry.controller.handler ELSE <<>>
        pushed == IF IndexOf(list, h) = 0 THEN Append(list, h) ELSE list
    IN  IF ~EngineAccepts(Decl(h).method, Decl(h).path)
        THEN [st EXCEPT !.error = "engine error"]
        ELSE [st EXCEPT
                !.routers[rid] = Append(@, Binding(instance, h)),
                !.map[controllerid].controller.hasHandler = TRUE,
                !.map[controllerid].controller.handler = pushed]

\* controllerHandlers.forEach(...): a throw ends the loop and the call.
RECURSIVE ForEachHandler(_, _, _, _, _)
ForEachHandler(st, controllerid, instance, hs, i) ==
    IF i > Len(hs) \/ st.error # ""
    THEN st
    ELSE ForEachHandler(AttachOne(st, controllerid, instance, hs[i]),
                        controllerid, instance, hs, i + 1)

\* addControllerHandlers that registers an unknown controller id on the fly
\* instead of throwing.
AddControllerHandlersUnchecked(st, controllerid, hs) ==
    LET known == IF controllerid \in DOMAIN st.map
                 THEN st
                 ELSE [st EXCEPT
                        !.routers = Append(@, <<>>),
                        !.map = [n \in DOMAIN @ \cup {controllerid} |->
                                    IF n = controllerid
                                    THEN [router |-> Len(st.routers) + 1,
                                          controller |->
                                            [name |-> controllerid, instance |-> "",
                                             hasHandler |-> FALSE, handler |-> <<>>]]
                                    ELSE @[n]]]
    IN  ForEachHandler(known, controllerid,
                       known.map[controllerid].controller.instance, hs, 1)

\* addControllerHandlers(controllerid, controllerHandlers); a single handler
\* object has already been wrapped into a one-element array.
AddControllerHandlers(st, controllerid, hs) ==
    IF ~HasController(st.map, controllerid)
    THEN [st EXCEPT !.error = "controller not found"]
    ELSE ForEachHandler(st, controllerid,
                        st.map[controllerid].controller.instance, hs, 1)

\* createRouterForController that hands every controller one shared Router.
CreateSharedRouter(st, controller) ==
    [st EXCEPT
        !.routers = IF @ = <<>> THEN <<<<>>>> ELSE @,
        !.map = [n \in DOMAIN @ \cup {controller.name} |->
                    IF n = controller.name
                    THEN [router |-> 1, controller |-> controller]
                    ELSE @[n]]]

\* createRouterForController: a new Router, stored with the controller
\* object under its name.  The router's id is its index in routers.
CreateRouterForController(st, controller) ==
    LET rid == Len(st.routers) + 1
    IN  [st EXCEPT
            !.routers = Append(@, <<>>),
            !.map = [n \in DOMAIN @ \cup {controller.name} |->
                        IF n = controller.name
                        THEN [router |-> rid, controller |-> controller]
                        ELSE @[n]]]

\* addController without the check for a controller of that name.
AddControllerOverwrites(st, controller) ==
    LET created == CreateRouterForController(st, controller)
        rid == created.map[controller.name].router
        attached == IF controller.hasHandler
                    THEN AddControllerHandlers(created, controller.name,
                                               controller.handler)
                    ELSE created
    IN  IF attached.error # ""
        THEN attached
        ELSE [attached EXCEPT !.mounted = Append(@, rid)]

\* addController(controller)
AddController(st, controller) ==
    IF HasController(st.map, controller.name)
    THEN [st EXCEPT !.error = "controller already presents"]
    ELSE LET created == CreateRouterForController(st, controller)
             rid == created.map[controller.name].router
             attached == IF controller.hasHandler
                         THEN AddControllerHandlers(created, controller.name,
                                                    controller.handler)
                         ELSE created
         IN  IF attached.error # ""
             THEN attached
             ELSE [attached EXCEPT !.mounted = Append(@, rid)]

\* The argument of addControllerHandlers: one handler object or an array.
HandlerArgs ==
    [isArray : {FALSE}, value : HandlerIds]
    \cup
    [isArray : {TRUE}, value : HandlerArrays]

\* if (!Array.isArray(controllerHandlers)) controllerHandlers = [controllerHandlers]
Normalize(arg) == IF arg.isArray THEN arg.value ELSE <<arg.value>>

\* ------------------------------------------------------------- dispatch
\* The application's route table: the bindings of the mounted routers, in
\* mount order and, within a router, in binding order.
RECURSIVE RouteTable(_, _, _)
RouteTable(rs, ms, i) ==
    IF i > Len(ms) THEN <<>> ELSE rs[ms[i]] \o RouteTable(rs, ms, i + 1)

Matches(binding, method, path) ==
    binding.method = method /\ binding.path = path

\* An engine in which the binding added last wins.
MatchIndexLast(table, method, path) ==
    IF \E i \in 1..Len(table) : Matches(table[i], method, path)
    THEN CHOOSE i \in 1..Len(table) :
            /\ Matches(table[i], method, path)
            /\ \A j \in (i + 1)..Len(table) : ~Matches(table[j], method, path)
    ELSE 0

\* The engine runs the first binding that matches the request; the shim
\* never calls next(), so no later binding runs.  0 when none matches.
MatchIndex(table, method, path) ==
    IF \E i \in 1..Len(table) : Matches(table[i], method, path)
    THEN CHOOSE i \in 1..Len(table) :
            /\ Matches(table[i], method, path)
            /\ \A j \in 1..(i - 1) : ~Matches(table[j], method, path)
    ELSE 0

NoValue == <<>>

\* What controller[handler](req) resolves to when it resolves: a value of
\* that instance's method for that request.
Result(instance, handler, id) == <<instance, handler, id>>

NewRequest(method, path) ==
    [method |-> method, path |-> path, state |-> "received",
     instance |-> "", handler |-> "", invoked |-> FALSE,
     settled |-> "", result |-> NoValue, body |-> NoValue,
     shims |-> 0, sent |-> 0]

\* The shim up to its await: controller[handler](req).  A handler name that
\* is no method of the instance makes the call throw inside the async
\* function, which rejects the shim's promise.  shims counts the shims run
\* for the request.
ShimStart(req, binding) ==
    IF binding.handler \in Methods(binding.instance)
    THEN [req EXCEPT !.state = "awaiting", !.instance = binding.instance,
                     !.handler = binding.handler, !.invoked = TRUE,
                     !.shims = @ + 1]
    ELSE [req EXCEPT !.state = "rejected", !.instance = binding.instance,
                     !.handler = binding.handler, !.shims = @ + 1]

\* The engine routes a request: the first matching binding's shim starts,
\* or the engine answers not found.
Dispatch(rs, ms, method, path) ==
    LET table == RouteTable(rs, ms, 1)
        k == MatchIndex(table, method, path)
    IN  IF k = 0
        THEN [NewRequest(method, path) EXCEPT !.state = "notfound"]
        ELSE ShimStart(NewRequest(method, path), table[k])

\* return res.send(response); sent counts the responses the shims wrote.
Send(req, response) ==
    [req EXCEPT !.state = "answered", !.body = response, !.sent = @ + 1]

\* A shim that keeps the awaited value in a variable all requests share:
\* it sends the value resolved for the latest request that has one.
ShimResumeShared(req) ==
    LET done == {q \in 1..Len(reqs) : reqs[q].settled = "resolved"}
        latest == CHOOSE q \in done : \A p \in done : p <= q
    IN  Send(req, reqs[latest].result)

\* The shim after its await resolved: const response = <the value>; send it.
ShimResume(req) == Send(req, req.result)

InFlight(req) == req.state \in {"awaiting", "resolved", "rejected"}

\* ---------------------------------------------------------------- steps
NoCall == [op |-> "none", name |-> "", given |-> "undefined",
           fresh |-> 0, error |-> ""]

NoOp == [op |-> "none", on |-> 0, was |-> "undefined", error |-> ""]

\* The process at its start: Server.app is undefined, no instance has been
\* constructed, nothing listens.
Start ==
    /\ app = 0
    /\ heap = <<>>
    /\ sockets = <<>>
    /\ current = {}
    /\ lastOp = NoOp

\* The state after construction: no controller, no router, no request.
Construct ==
    /\ routerControllerMap = <<>>
    /\ routers = <<>>
    /\ mounted = <<>>
    /\ lastCall = NoCall
    /\ reqs = <<>>
    /\ alive = TRUE
    /\ Start

Init == Construct /\ traced = FALSE
InitR == Construct /\ traced = TRUE

Registry == State(routerControllerMap, routers, mounted, "")

RECURSIVE SumLen(_, _)
SumLen(f, keys) ==
    IF keys = {} THEN 0
    ELSE LET k == CHOOSE x \in keys : TRUE
         IN  Len(f[k]) + SumLen(f, keys \ {k})

\* Handler records and route bindings held by a registry state.
Records(st) ==
    SumLen([n \in DOMAIN st.map |-> st.map[n].controller.handler], DOMAIN st.map)
Routes(st) == SumLen(st.routers, DOMAIN st.routers)

\* A registry call is taken when what it builds fits the run's bound.
Work(st, rq) == Records(st) + Routes(st) + (Len(rq) + Len(rq))
Budget == IF traced THEN MaxSetup ELSE MaxWork
Fits(st) == Work(st, reqs) <= Budget

Given(hasHandler, hs) ==
    IF ~hasHandler THEN "undefined" ELSE IF hs = <<>> THEN "empty" ELSE "some"

\* The number of handler objects of a call that are not yet records of the
\* controller.
Fresh(map, name, hs) ==
    IF name \in DOMAIN map
    THEN LET list == map[name].controller.handler
         IN  Cardinality({hs[i] : i \in 1..Len(hs)} \ {list[i] : i \in 1..Len(list)})
    ELSE 0

Apply(st, call) ==
    /\ Fits(st)
    /\ routerControllerMap' = st.map
    /\ routers' = st.routers
    /\ mounted' = st.mounted
    /\ lastCall' = IF traced THEN call ELSE lastCall
    /\ UNCHANGED <<lifecycle, traced, reqs, alive>>

\* A caller calls addController(controller).
AddControllerCall ==
    \E controller \in Controllers :
        /\ alive
        /\ LET st == AddController(Registry, controller)
           IN  Apply(st, [op |-> "addController", name |-> controller.name,
                          given |-> Given(controller.hasHandler, controller.handler),
                          fresh |-> 0, error |-> st.error])

\* A caller calls addControllerHandlers(controllerid, one or many handlers).
AddControllerHandlersCall ==
    \E controllerid \in Names, arg \in HandlerArgs :
        /\ alive
        /\ LET st == AddControllerHandlers(Registry, controllerid, Normalize(arg))
           IN  Apply(st, [op |-> "addControllerHandlers", name |-> controllerid,
                          given |-> Given(TRUE, Normalize(arg)),
                          fresh |-> Fresh(routerControllerMap, controllerid,
                                          Normalize(arg)),
                          error |-> st.error])

\* A request arrives and the engine dispatches it.
Receive ==
    \E line \in RequestLines :
        /\ alive
        /\ reqs' = Append(reqs, Dispatch(routers, mounted, line[1], line[2]))
        /\ Work(Registry, reqs') <= Budget
        /\ UNCHANGED <<lifecycle, routerControllerMap, routers, mounted, lastCall, traced, alive>>

\* The controller method invoked for request r resolves.
MethodResolves ==
    \E r \in 1..Len(reqs) :
        /\ alive /\ reqs[r].state = "awaiting"
        /\ reqs' = [reqs EXCEPT ![r].state = "resolved",
                                ![r].settled = "resolved",
                                ![r].result = Result(reqs[r].instance, reqs[r].handler, r)]
        /\ UNCHANGED <<lifecycle, routerControllerMap, routers, mounted, lastCall, traced, alive>>

\* The controller method invoked for request r throws or rejects.
MethodRejects ==
    \E r \in 1..Len(reqs) :
        /\ alive /\ reqs[r].state = "awaiting"
        /\ reqs' = [reqs EXCEPT ![r].state = "rejected",
                                ![r].settled = "rejected"]
        /\ UNCHANGED <<lifecycle, routerControllerMap, routers, mounted, lastCall, traced, alive>>

\* The await of request r's shim resumes with the resolved value.
Respond ==
    \E r \in 1..Len(reqs) :
        /\ alive /\ reqs[r].state = "resolved"
        /\ reqs' = [reqs EXCEPT ![r] = ShimResume(reqs[r])]
        /\ UNCHANGED <<lifecycle, routerControllerMap, routers, mounted, lastCall, traced, alive>>

\* The shim has no catch, so what becomes of its rejected promise is the
\* engine's and the runtime's to decide; the three steps below are the
\* outcomes builds of this code produce.
\*
\* The engine forwards the rejection to its error handler, which answers
\* with a server error.
EngineCatches ==
    \E r \in 1..Len(reqs) :
        /\ alive /\ reqs[r].state = "rejected"
        /\ reqs' = [reqs EXCEPT ![r].state = "error"]
        /\ UNCHANGED <<lifecycle, routerControllerMap, routers, mounted, lastCall, traced, alive>>

\* The engine ignores the promise and the runtime only warns about the
\* unhandled rejection: the request is never answered.
EngineDrops ==
    \E r \in 1..Len(reqs) :
        /\ alive /\ reqs[r].state = "rejected"
        /\ reqs' = [reqs EXCEPT ![r].state = "unanswered"]
        /\ UNCHANGED <<lifecycle, routerControllerMap, routers, mounted, lastCall, traced, alive>>

\* The engine ignores the promise and the runtime terminates the process on
\* the unhandled rejection: every request still in flight is cut off.
\* Resumed awaits run before the runtime looks at unhandled rejections, so
\* no request is in state "resolved" at that point.
ProcessExits ==
    \E r \in 1..Len(reqs) :
        /\ alive /\ reqs[r].state = "rejected"
        /\ \A q \in 1..Len(reqs) : reqs[q].state # "resolved"
        /\ reqs' = [q \in 1..Len(reqs) |->
                        IF InFlight(reqs[q])
                        THEN [reqs[q] EXCEPT !.state = "unanswered"]
                        ELSE reqs[q]]
        /\ alive' = FALSE
        /\ UNCHANGED <<lifecycle, routerControllerMap, routers, mounted, lastCall, traced>>

Next ==
    \/ AddControllerCall
    \/ AddControllerHandlersCall
    \/ Receive
    \/ MethodResolves
    \/ MethodRejects
    \/ Respond
    \/ EngineCatches
    \/ EngineDrops
    \/ ProcessExits

\* The registry with requests.
Spec == Init /\ [][Next]_vars

\* The registry alone, every call recorded in lastCall.
NextR ==
    \/ AddControllerCall
    \/ AddControllerHandlersCall

SpecR == InitR /\ [][NextR]_vars

\* ------------------------------------------------------------- lifecycle
\* new ExpressServer(): an application with an empty registry that has not
\* listened and exposes no documentation yet.
NewExpressServer ==
    [map |-> <<>>, routers |-> <<>>, mounted |-> <<>>, server |-> 0, docs |-> 0]

\* Server.getInstance() of basic-service/server.ts: the lazy singleton the
\* specification describes.  It constructs the application when Server.app
\* is undefined and hands out Server.app.
GetInstance(a, h) ==
    IF a = 0
    THEN [app |-> Len(h) + 1, heap |-> Append(h, NewExpressServer), got |-> Len(h) + 1]
    ELSE [app |-> a, heap |-> h, got |-> a]

\* prepareSwagger(path, location): two more app.use calls.
PrepareSwagger(inst) == [inst EXCEPT !.docs = @ + 1]

\* A BasicService that constructs an application of its own instead of
\* asking getInstance.
NewServiceOwnInstance(a, h, swagger) ==
    LET g == [app |-> a, heap |-> Append(h, NewExpressServer), got |-> Len(h) + 1]
    IN  IF swagger
        THEN [g EXCEPT !.heap[g.got] = PrepareSwagger(@)]
        ELSE g

\* new BasicService(serviceConfig): getInstance(), then prepareSwagger
\* unless serviceConfig.swagger is false.
NewService(a, h, swagger) ==
    LET g == GetInstance(a, h)
    IN  IF swagger
        THEN [g EXCEPT !.heap[g.got] = PrepareSwagger(@)]
        ELSE g

\* listen(port, callback): this.server = this.app.listen(port, callback).
\* The port is free, so the new http server listens.
Listen(id, inst, socks) ==
    [inst |-> [inst EXCEPT !.server = Len(socks) + 1],
     sockets |-> Append(socks, [owner |-> id, state |-> "listening"])]

\* close() without the optional chaining: this.server.close().
CloseUnguarded(inst, socks) ==
    IF inst.server = 0
    THEN [sockets |-> socks, error |-> "TypeError"]
    ELSE [sockets |-> [socks EXCEPT ![inst.server].state = "closed"], error |-> ""]

\* close(): this.server?.close().  Closing an http server that is not
\* listening does not throw when no callback is passed.
Close(inst, socks) ==
    IF inst.server = 0
    THEN [sockets |-> socks, error |-> ""]
    ELSE [sockets |-> [socks EXCEPT ![inst.server].state = "closed"], error |-> ""]

\* What this.server is before a call: undefined, or an http server that is
\* listening or closed.
ServerState(inst, socks) ==
    IF inst.server = 0 THEN "undefined" ELSE socks[inst.server].state

\* The controllers registered in the runs of the lifecycle.
LifeControllers ==
    {c \in Controllers : c.instance = "i1" /\ (~c.hasHandler \/ c.handler = <<1>>)}

RECURSIVE Held(_, _)
Held(h, i) ==
    IF i > Len(h) THEN 0
    ELSE Cardinality(DOMAIN h[i].map) + Records(h[i]) + Routes(h[i]) + h[i].docs
         + Held(h, i + 1)

\* A lifecycle call is taken when what it builds fits the run's bound.
LifeWork(h, socks) == Len(h) + Len(socks) + Held(h, 1)
LifeFits(h, socks) == LifeWork(h, socks) <= MaxLife

Op(op, id, error) ==
    [op |-> op, on |-> id,
     was |-> IF id = 0 THEN "undefined" ELSE ServerState(heap[id], sockets),
     error |-> error]

\* A caller calls Server.getInstance() and keeps the reference.
GetInstanceCall ==
    LET g == GetInstance(app, heap)
    IN  /\ LifeFits(g.heap, sockets)
        /\ app' = g.app
        /\ heap' = g.heap
        /\ current' = current \cup {[by |-> "caller", ref |-> g.got]}
        /\ lastOp' = [op |-> "getInstance", on |-> g.got,
                      was |-> ServerState(g.heap[g.got], sockets), error |-> ""]
        /\ UNCHANGED <<single, sockets>>

\* A caller constructs a BasicService, which keeps the reference it obtains.
NewBasicService ==
    \E swagger \in BOOLEAN :
        LET g == NewService(app, heap, swagger)
        IN  /\ LifeFits(g.heap, sockets)
            /\ app' = g.app
            /\ heap' = g.heap
            /\ current' = current \cup {[by |-> "service", ref |-> g.got]}
            /\ lastOp' = [op |-> "newService", on |-> g.got,
                          was |-> ServerState(g.heap[g.got], sockets), error |-> ""]
            /\ UNCHANGED <<single, sockets>>

\* The explicit reset: (Server as any).app = undefined.
ResetCall ==
    /\ app' = 0
    /\ current' = {}
    /\ lastOp' = Op("reset", app, "")
    /\ UNCHANGED <<single, heap, sockets>>

\* A holder of a reference to instance id registers a controller.
RegisterCall ==
    \E id \in 1..Len(heap), controller \in LifeControllers :
        LET st == AddController(State(heap[id].map, heap[id].routers,
                                      heap[id].mounted, ""), controller)
        IN  /\ heap' = [heap EXCEPT ![id].map = st.map,
                                    ![id].routers = st.routers,
                                    ![id].mounted = st.mounted]
            /\ LifeFits(heap', sockets)
            /\ lastOp' = Op("addController", id, st.error)
            /\ UNCHANGED <<single, app, sockets, current>>

\* A holder of a reference to instance id calls listen (BasicService.run
\* does so with the configured port).
ListenCall ==
    \E id \in 1..Len(heap) :
        LET l == Listen(id, heap[id], sockets)
        IN  /\ heap' = [heap EXCEPT ![id] = l.inst]
            /\ sockets' = l.sockets
            /\ LifeFits(heap', sockets')
            /\ lastOp' = Op("listen", id, "")
            /\ UNCHANGED <<single, app, current>>

\* A holder of a reference to instance id calls close.
CloseCall ==
    \E id \in 1..Len(heap) :
        LET c == Close(heap[id], sockets)
        IN  /\ sockets' = c.sockets
            /\ lastOp' = Op("close", id, c.error)
            /\ UNCHANGED <<single, app, heap, current>>

InitL == Construct /\ traced = FALSE

NextL ==
    \/ GetInstanceCall
    \/ NewBasicService
    \/ ResetCall
    \/ RegisterCall
    \/ ListenCall
    \/ CloseCall

\* The lifecycle of the application singleton.
SpecL == InitL /\ [][NextL]_vars

\* ------------------------------------------------------------- registry claims
Entry(name) == routerControllerMap[name]
HandlerList(name) == Entry(name).controller.handler

\* C1: addController with a name already in the registry throws
\* 'controller already presents' and changes nothing: the entry keeps its
\* instance, router and handler list, and no router is created or mounted.
C1_DuplicateRejected ==
    [][(lastCall'.op = "addController"
            /\ HasController(routerControllerMap, lastCall'.name))
        => /\ lastCall'.error = "controller already presents"
           /\ routerControllerMap' = routerControllerMap
           /\ routers' = routers
           /\ mounted' = mounted]_vars

\* A duplicate registration carrying handlers has just been refused, the
\* name still being registered with the handlers it had.
C1_Witness ==
    /\ lastCall.op = "addController"
    /\ lastCall.error = "controller already presents"
    /\ lastCall.given = "some"
    /\ HasController(routerControllerMap, lastCall.name)
    /\ Len(HandlerList(lastCall.name)) = 1

C3_ReattachKeepsLength ==
    [][(lastCall'.op = "addControllerHandlers" /\ lastCall'.error = ""
            /\ HasController(routerControllerMap, lastCall'.name))
        => LET before == HandlerList(lastCall'.name)
               after == routerControllerMap'[lastCall'.name].controller.handler
           IN  /\ Len(after) = Len(before) + lastCall'.fresh
               /\ lastCall'.fresh = 0 => after = before]_vars

\* A handler object has just been attached again to a controller that was
\* registered without handlers: its list holds that one record, its router
\* two bindings.
C3_Witness ==
    /\ lastCall.op = "addControllerHandlers"
    /\ lastCall.error = ""
    /\ lastCall.given = "some"
    /\ lastCall.fresh = 0
    /\ Len(HandlerList(lastCall.name)) = 1
    /\ Len(routers[Entry(lastCall.name).router]) = 2

\* C4: no handler list holds two records with equal method, path and
\* handler.
C4_NoEqualRecords ==
    \A n \in DOMAIN routerControllerMap :
        \A i, j \in 1..Len(HandlerList(n)) :
            i # j => Decl(HandlerList(n)[i]) # Decl(HandlerList(n)[j])

\* A controller that declared no handlers has just been registered.
RegisteredBare ==
    /\ lastCall.op = "addController"
    /\ lastCall.error = ""
    /\ lastCall.given \in {"undefined", "empty"}

Mounted(router) == \E i \in 1..Len(mounted) : mounted[i] = router

\* The entry of name has a routing scope of its own: an existing router
\* that no other entry uses.
HasOwnScope(name) ==
    /\ Entry(name).router \in 1..Len(routers)
    /\ \A n \in DOMAIN routerControllerMap :
            n # name => Entry(n).router # Entry(name).router

\* C8 as stated: after registering a controller that declares no handlers,
\* its entry has a routing scope and a handler list of length 0.
C8_EmptyHandlerList ==
    RegisteredBare
    => /\ HasController(routerControllerMap, lastCall.name)
       /\ HasOwnScope(lastCall.name)
       /\ Entry(lastCall.name).controller.hasHandler
       /\ Len(HandlerList(lastCall.name)) = 0

\* C8 amended: after registering a controller that declares no handlers,
\* its entry has a routing scope of its own, without bindings and mounted,
\* and no handler record; the handler list itself is the one the controller
\* carried: none (undefined) when it carried none, the empty list when it
\* carried an empty list.
C8_NoHandlerRecords ==
    RegisteredBare
    => /\ HasController(routerControllerMap, lastCall.name)
       /\ HasOwnScope(lastCall.name)
       /\ routers[Entry(lastCall.name).router] = <<>>
       /\ Mounted(Entry(lastCall.name).router)
       /\ HandlerList(lastCall.name) = <<>>
       /\ Entry(lastCall.name).controller.hasHandler = (lastCall.given = "empty")

\* "Stub" has just been registered without a handler list, next to a
\* controller that has handlers.
C8_Witness ==
    /\ RegisteredBare
    /\ lastCall.name = "Stub"
    /\ lastCall.given = "undefined"
    /\ HasController(routerControllerMap, "test")
    /\ Len(HandlerList("test")) > 0

\* C9: every controller in the registry has its router mounted in the
\* application.
C9_EveryScopeMounted ==
    \A n \in DOMAIN routerControllerMap : Mounted(Entry(n).router)

\* ------------------------------------------------------------- dispatch claims
\* The request a Receive step has just added.
Received == Len(reqs') = Len(reqs) + 1
Newest == reqs'[Len(reqs')]

\* C5 as stated, for the handlers that can be served at all (the controller's
\* registration completed, so its router is mounted, and its instance has
\* the method): a request with the handler's verb and path invokes that
\* method on that controller's instance.
C5_EveryHandlerServed ==
    [][Received =>
        \A n \in DOMAIN routerControllerMap :
            \A i \in 1..Len(HandlerList(n)) :
                LET d == Decl(HandlerList(n)[i])
                    instance == Entry(n).controller.instance
                IN  (/\ Mounted(Entry(n).router)
                     /\ d.handler \in Methods(instance)
                     /\ d.method = Newest.method
                     /\ d.path = Newest.path)
                    => /\ Newest.invoked
                       /\ Newest.instance = instance
                       /\ Newest.handler = d.handler]_vars

\* The bindings a request can reach: position <<i, j>> is the j-th binding
\* of the i-th mounted router.
Positions ==
    {p \in (1..Len(mounted)) \X (1..(MaxWork + 1)) :
        p[2] <= Len(routers[mounted[p[1]]])}
At(p) == routers[mounted[p[1]]][p[2]]
Before(p, q) == p[1] < q[1] \/ (p[1] = q[1] /\ p[2] < q[2])
Hit(p, req) == At(p).method = req.method /\ At(p).path = req.path

\* The request was given to the binding at position p.
GivenTo(req, p) ==
    /\ req.instance = At(p).instance
    /\ req.handler = At(p).handler
    /\ req.invoked = (At(p).handler \in Methods(At(p).instance))
    /\ req.state = IF req.invoked THEN "awaiting" ELSE "rejected"

\* An answered request carries the value its own method invocation
\* resolved to.
AnsweredWithOwnResult(rq) ==
    \A r \in 1..Len(rq) :
        rq[r].state = "answered"
        => /\ rq[r].invoked
           /\ rq[r].settled = "resolved"
           /\ rq[r].body = Result(rq[r].instance, rq[r].handler, r)

\* C5 amended: a request is given to the first binding with its verb and
\* path among the mounted routers (in mount order, and in attach order
\* within a router), and to no other: that binding's method is invoked on
\* that binding's controller instance with the request, and when the method
\* resolves the response body is the resolved value.  A request no mounted
\* binding matches is answered not found.
C5_FirstBindingServes ==
    [][/\ Received =>
            IF \E p \in Positions : Hit(p, Newest)
            THEN \E p \in Positions :
                    /\ Hit(p, Newest)
                    /\ \A q \in Positions : Before(q, p) => ~Hit(q, Newest)
                    /\ GivenTo(Newest, p)
            ELSE Newest.state = "notfound" /\ ~Newest.invoked
       /\ AnsweredWithOwnResult(reqs')]_vars

\* A request was answered with its own result while two mounted bindings of
\* different controller instances had its verb and path.
C5_Witness ==
    \E r \in 1..Len(reqs) :
        /\ reqs[r].state = "answered"
        /\ reqs[r].body = Result(reqs[r].instance, reqs[r].handler, r)
        /\ \E p, q \in Positions :
            /\ Hit(p, reqs[r]) /\ Hit(q, reqs[r])
            /\ At(p).instance # At(q).instance

\* C6: a response is written only after the controller method completed,
\* and a request whose method completed does not stay without an answer.
C6_AnsweredAfterCompletion ==
    \A r \in 1..Len(reqs) :
        /\ reqs[r].state = "answered" => reqs[r].settled # ""
        /\ reqs[r].settled # "" => reqs[r].state # "unanswered"

\* C7: a request whose controller method threw or rejected gets a server
\* error response: no success response, and not no response.
C7_FailureGetsErrorResponse ==
    \A r \in 1..Len(reqs) :
        reqs[r].settled = "rejected" => reqs[r].state \in {"rejected", "error"}

\* C10: the step that ends a request whose controller method failed changes
\* neither the registry nor any other request.
C10_FailureIsolated ==
    [][\A r \in 1..Len(reqs) :
        (/\ Len(reqs') = Len(reqs)
         /\ reqs[r].settled = "rejected"
         /\ reqs[r].state = "rejected"
         /\ reqs'[r].state # "rejected")
        => /\ routerControllerMap' = routerControllerMap
           /\ routers' = routers
           /\ mounted' = mounted
           /\ \A q \in 1..Len(reqs) : q # r => reqs'[q] = reqs[q]]_vars

\* ------------------------------------------------------------- later registry claims
IsPrefix(s, t) == Len(s) <= Len(t) /\ \A i \in 1..Len(s) : t[i] = s[i]

\* C11: a registered name stays registered, with the same instance and the
\* same router, and its handler list and its router's bindings are only
\* extended: the list and the bindings before a step are prefixes of those
\* after it.
C11_OnlyForward ==
    [][\A n \in DOMAIN routerControllerMap :
        /\ HasController(routerControllerMap', n)
        /\ routerControllerMap'[n].router = Entry(n).router
        /\ routerControllerMap'[n].controller.instance = Entry(n).controller.instance
        /\ routerControllerMap'[n].controller.name = n
        /\ IsPrefix(HandlerList(n), routerControllerMap'[n].controller.handler)
        /\ IsPrefix(routers[Entry(n).router], routers'[Entry(n).router])]_vars

\* A handler object has just been added to a list that held another, while
\* a second controller is registered.
C11_Witness ==
    /\ lastCall.op = "addControllerHandlers"
    /\ lastCall.error = ""
    /\ lastCall.fresh = 1
    /\ Len(HandlerList(lastCall.name)) = 2
    /\ Cardinality(DOMAIN routerControllerMap) = 2

\* The bindings a call installs for the handler objects hs, in order.
BindingsOf(instance, hs) == [i \in 1..Len(hs) |-> Binding(instance, hs[i])]

\* The number of places of a sequence that hold x.
Count(seq, x) == Cardinality({i \in 1..Len(seq) : seq[i] = x})

\* C15: whatever a registered controller's state, an addControllerHandlers
\* call on it that returns has added to the controller's router one
\* binding for each handler object of the call, in order, whether or not
\* the object was recorded already; and it has added a record only for an
\* object the list did not hold, and then a single one.  So a handler
\* object attached k times has k bindings and one record.
C15_BindingUnconditional ==
    \A n \in DOMAIN routerControllerMap :
        \A arg \in HandlerArgs :
            LET hs == Normalize(arg)
                rid == Entry(n).router
                st == AddControllerHandlers(Registry, n, hs)
                after == st.map[n].controller.handler
            IN  st.error = ""
                => /\ st.routers[rid]
                        = routers[rid] \o BindingsOf(Entry(n).controller.instance, hs)
                   /\ \A h \in HandlerIds :
                        Count(after, h) =
                            IF Count(HandlerList(n), h) > 0
                            THEN Count(HandlerList(n), h)
                            ELSE IF Count(hs, h) > 0 THEN 1 ELSE 0

\* Handler object 1 has just been attached for the third time to a
\* controller: the router holds three bindings for it, the list one record.
C15_Witness ==
    /\ lastCall.op = "addControllerHandlers"
    /\ lastCall.error = ""
    /\ lastCall.fresh = 0
    /\ HandlerList(lastCall.name) = <<1>>
    /\ routers[Entry(lastCall.name).router]
            = BindingsOf(Entry(lastCall.name).controller.instance, <<1, 1, 1>>)

\* C18: every record of a registered controller's handler list has a
\* binding with its method, path and handler in that controller's router.
C18_EveryRecordBound ==
    \A n \in DOMAIN routerControllerMap :
        \A i \in 1..Len(HandlerList(n)) :
            \E j \in 1..Len(routers[Entry(n).router]) :
                LET b == routers[Entry(n).router][j]
                    d == Decl(HandlerList(n)[i])
                IN  b.method = d.method /\ b.path = d.path /\ b.handler = d.handler

\* The handler objects of hs have pairwise different method, path or handler.
PairwiseDistinct(hs) ==
    \A i, j \in 1..Len(hs) : i # j => Decl(hs[i]) # Decl(hs[j])

\* C20: whatever the registry's state, addController of a controller with
\* a new name that carries pairwise distinct handlers, when it returns,
\* leaves the entry with the list it carried (the same handlers in the same
\* order, none a second time) and a new, mounted router that holds exactly
\* one binding for each of them.
C20_CarriedListKept ==
    \A controller \in Controllers :
        LET st == AddController(Registry, controller)
            rid == st.map[controller.name].router
        IN  (/\ ~HasController(routerControllerMap, controller.name)
             /\ controller.hasHandler
             /\ PairwiseDistinct(controller.handler)
             /\ st.error = "")
            => /\ st.map[controller.name].controller.handler = controller.handler
               /\ rid = Len(routers) + 1
               /\ st.mounted = Append(mounted, rid)
               /\ Len(st.routers[rid]) = Len(controller.handler)
               /\ \A i \in 1..Len(controller.handler) :
                    Count(st.routers[rid],
                          Binding(controller.instance, controller.handler[i])) = 1

\* A controller carrying handler objects 1 and 3 has just been registered
\* next to another controller: its list is <<1, 3>>, its router holds their
\* two bindings.
C20_Witness ==
    /\ lastCall.op = "addController"
    /\ lastCall.error = ""
    /\ Cardinality(DOMAIN routerControllerMap) = 2
    /\ HandlerList(lastCall.name) = <<1, 3>>
    /\ Entry(lastCall.name).router = 2
    /\ routers[2] = BindingsOf(Entry(lastCall.name).controller.instance, <<1, 3>>)

\* ------------------------------------------------------------- later dispatch claims
\* The handler objects whose handler is no method of the instance.
Unknown(instance) == {h \in HandlerIds : Decl(h).handler \notin Methods(instance)}

\* Attaching a handler whose handler is no method of a registered
\* controller's instance returns, binds the route and records the handler.
C16_AttachedUnvalidated ==
    \A n \in DOMAIN routerControllerMap :
        \A h \in Unknown(Entry(n).controller.instance) :
            LET st == AddControllerHandlers(Registry, n, <<h>>)
                rid == Entry(n).router
            IN  /\ st.error = ""
                /\ st.routers[rid]
                        = Append(routers[rid], Binding(Entry(n).controller.instance, h))
                /\ Count(st.map[n].controller.handler, h) >= 1

\* Request r was given to a binding whose handler is no method of the
\* instance: the shim's call threw before any method ran.
FailedUnknown(req) == req.state = "rejected" /\ ~req.invoked

\* C16: attaching a handler whose handler is no method of the instance
\* succeeds, binds and records; the failure shows when a matching request
\* is dispatched, and the step that ends that request changes nothing
\* else: not the registry, not another request, not the process.
C16_UnknownMethodConfined ==
    [][/\ C16_AttachedUnvalidated
       /\ \A r \in 1..Len(reqs) :
            (/\ Len(reqs') = Len(reqs)
             /\ FailedUnknown(reqs[r])
             /\ reqs'[r].state # "rejected")
            => /\ routerControllerMap' = routerControllerMap
               /\ routers' = routers
               /\ mounted' = mounted
               /\ alive' = alive
               /\ \A q \in 1..Len(reqs) : q # r => reqs'[q] = reqs[q]]_vars

\* C17: in every interleaving of the requests' steps, an answered request
\* carries the value its own method invocation resolved to, and that is
\* the value of no other request's invocation.
C17_OwnResultUnderInterleaving ==
    \A r \in 1..Len(reqs) :
        reqs[r].state = "answered"
        => /\ reqs[r].invoked
           /\ reqs[r].settled = "resolved"
           /\ reqs[r].body = reqs[r].result
           /\ reqs[r].body = Result(reqs[r].instance, reqs[r].handler, r)
           /\ \A q \in 1..Len(reqs) :
                (q # r /\ reqs[q].settled = "resolved") => reqs[q].result # reqs[r].body

\* A request to a handler is still suspended at its await while a later
\* request to the same handler of the same instance has been dispatched,
\* has completed and has been answered with its own result.
C17_Witness ==
    \E r, q \in 1..Len(reqs) :
        /\ r < q
        /\ reqs[r].state = "awaiting"
        /\ reqs[q].state = "answered"
        /\ reqs[q].instance = reqs[r].instance
        /\ reqs[q].handler = reqs[r].handler
        /\ reqs[q].body = Result(reqs[q].instance, reqs[q].handler, q)

\* The bindings among the mounted routers that a request matches.
Hits(req) == {p \in Positions : Hit(p, req)}

\* The responses written for a request: by its shims, or by the engine's
\* error handler.
Responses(req) == req.sent + (IF req.state = "error" THEN 1 ELSE 0)

\* A request that matches one binding or several (a handler attached k
\* times is bound k times) runs one shim, which makes the one call of the
\* controller method; and no request has two responses written.
C19_DuplicatesNeverRun ==
    /\ (Received /\ Hits(Newest) # {})
        => /\ Newest.shims = 1
           /\ Newest.invoked = (Newest.handler \in Methods(Newest.instance))
    /\ \A r \in 1..Len(reqs') :
        /\ reqs'[r].shims <= 1
        /\ Responses(reqs'[r]) <= 1

\* C19: a request that matches a handler attached k >= 1 times runs one
\* shim and so invokes the method once, never has two responses, and does
\* not end without a response.
C19_OnceInvokedOnceAnswered ==
    [][/\ C19_DuplicatesNeverRun
       /\ \A r \in 1..Len(reqs') :
            reqs'[r].invoked => reqs'[r].state # "unanswered"]_vars

\* ------------------------------------------------------------- lifecycle claims
\* C12: close() does not fail, whether the instance never listened, is
\* listening or was closed already, and it leaves every instance's registry
\* (and Server.app) as they were; an http server the instance's handle does
\* not name is left as it was.
C12_CloseNeverFails ==
    [][lastOp'.op = "close"
        => /\ lastOp'.error = ""
           /\ lastOp'.was \in {"undefined", "listening", "closed"}
           /\ heap' = heap
           /\ app' = app
           /\ Len(sockets') = Len(sockets)
           /\ \A i \in 1..Len(sockets) :
                i # heap[lastOp'.on].server => sockets'[i] = sockets[i]]_vars

\* close() has just been called on an instance that was closed already and
\* that has a controller registered.
C12_Witness ==
    /\ lastOp.op = "close"
    /\ lastOp.was = "closed"
    /\ lastOp.error = ""
    /\ DOMAIN heap[lastOp.on].map # {}

\* C13: after close() on an instance no http server of that instance
\* listens.
C13_NothingListensAfterClose ==
    lastOp.op = "close"
    => \A i \in 1..Len(sockets) :
            sockets[i].owner = lastOp.on => sockets[i].state # "listening"

\* The step is a getInstance() call, a caller's or a BasicService's.
Got == lastOp'.op \in {"getInstance", "newService"}

\* The registry seen through a reference.
Seen(h, r) == h[r.ref].map

\* C14: while Server.app is set, getInstance() hands out that instance and
\* constructs nothing; the references handed out since the last reset,
\* the BasicService's among them, all name Server.app, so a controller
\* registered through one of them is in the registry seen through each;
\* Server.app changes only by the explicit reset, and the getInstance()
\* after a reset constructs a new instance with an empty registry and
\* leaves the earlier instances as they were.
C14_SingletonUntilReset ==
    [][/\ (Got /\ app # 0)
            => /\ lastOp'.on = app
               /\ app' = app
               /\ Len(heap') = Len(heap)
               /\ heap'[app].map = heap[app].map
       /\ (Got /\ app = 0)
            => /\ lastOp'.on = Len(heap) + 1
               /\ app' = lastOp'.on
               /\ Len(heap') = Len(heap) + 1
               /\ heap'[app'].map = <<>>
               /\ \A i \in 1..Len(heap) : heap'[i] = heap[i]
       /\ (app # 0 /\ app' # app) => lastOp'.op = "reset"
       /\ \A r \in current' : r.ref = app'
       /\ (/\ lastOp'.op = "addController"
           /\ lastOp'.error = ""
           /\ \E r \in current : r.ref = lastOp'.on)
            => \A r \in current :
                /\ Seen(heap', r) = heap'[lastOp'.on].map
                /\ Cardinality(DOMAIN Seen(heap', r))
                        = Cardinality(DOMAIN Seen(heap, r)) + 1]_vars

\* After a reset a second instance was constructed; a caller and a
\* BasicService both hold it, and a controller has just been registered in
\* it, while the first instance keeps the controller it had.
C14_Witness ==
    /\ lastOp.op = "addController"
    /\ lastOp.error = ""
    /\ lastOp.on = 2
    /\ app = 2
    /\ current = {[by |-> "caller", ref |-> 2], [by |-> "service", ref |-> 2]}
    /\ DOMAIN heap[2].map # {}
    /\ DOMAIN heap[1].map # {}

====
